---- MODULE Spec2Model ----
(***************************************************************************)
(* A model of code_review.py: N reviewer child processes run concurrently  *)
(* under asyncio, each wrapped in a retry controller; a signal handler     *)
(* sets an interrupt flag and cancels the tasks; the orchestrator gathers  *)
(* the results, aggregates the findings, calls the summarizer engine,      *)
(* prints a report and returns an exit status.                             *)
(*                                                                         *)
(* One action is one step of the single-threaded event loop: the code      *)
(* between two suspension points (await) of one task, or one run of the    *)
(* signal handler.  Durations and the spinners' display are left out: no   *)
(* decision of the program reads them.                                     *)
(***************************************************************************)
EXTENDS Integers, Sequences, FiniteSets, TLC

\* ---------------------------------------------------------------- bounds
\* The --reviewers values explored: none, one task, two concurrent tasks.
ReviewerCounts == 0..2
\* Largest --retries value explored.
MaxRetries == 1
\* Most counted output lines (findings or undecodable lines) of one attempt.
MaxLines == 2
\* Most finding groups in the summarizer engine's answer.
MaxGroups == 1

\* ------------------------------------------------------------- constants
EXIT_NO_FINDINGS == 0
EXIT_FINDINGS == 1
EXIT_ERROR == 2
EXIT_INTERRUPTED == 130
\* exit_code = -1 of a timed-out attempt (collect_findings, line 759).
TIMEOUT_EXIT_CODE == -1
\* The status of a Python process that ends by an uncaught exception.
PY_UNCAUGHT_STATUS == 1

\* ------------------------------------------------------------------ text
\* A text is a sequence of characters; str.strip() removes these.
Whitespace == {" ", "\t"}
\* The text a reviewer's agent_message carries in the orchestration model
\* (AggTexts below are the texts the aggregator is checked on).
Texts == { <<"a">> }

\* Mutation of lstrip: one leading whitespace character is removed.
lstrip_Once(s) == IF s # <<>> /\ Head(s) \in Whitespace THEN Tail(s) ELSE s

RECURSIVE lstrip(_)
lstrip(s) ==
  IF s # <<>> /\ Head(s) \in Whitespace THEN lstrip(Tail(s)) ELSE s

RECURSIVE rstrip(_)
rstrip(s) ==
  IF s # <<>> /\ s[Len(s)] \in Whitespace
  THEN rstrip(SubSeq(s, 1, Len(s) - 1)) ELSE s

\* str.strip()
strip(s) == rstrip(lstrip(s))

\* ------------------------------------------------------------ data model
Finding(t, i) == [text |-> t, iteration |-> i]

ReviewerResult(i, fs, code, pe, to) ==
  [reviewer_id |-> i, findings |-> fs, exit_code |-> code,
   parse_errors |-> pe, timed_out |-> to]

\* `result: ReviewerResult | None = None`
None == [none |-> TRUE]

\* What gather(return_exceptions=True) stores for a task that did not return.
TaskException == [exc |-> "Exception"]
TaskCancelled == [exc |-> "CancelledError"]

VARIABLES
  \* inputs of the run
  codex,          \* shutil.which("codex") is not None
  reviewers,      \* args.reviewers
  retries,        \* args.retries
  \* ReviewState
  interrupted,    \* state.interrupted
  completed,      \* state.completed
  \* the reviewer tasks, state.tasks: task[i] is run_reviewer(i)
  task,
  delay,          \* per task: <<>>, or <<seconds of its pending backoff sleep>>
  \* run_review, the main task
  mpc,            \* where the main task is
  results,        \* what gather returned
  all_findings,   \* run_review's all_findings
  aggregated,     \* aggregate_findings(all_findings)
  payload,        \* <<>>, then the array written to the summarizer engine
  summary,        \* what summarize_findings returned
  report,         \* <<>> while nothing is printed, then <<the report>>
  pr_action,      \* the PR action executed: "none", "approve", "comment"
  lgtm_body,      \* <<>>, then <<the counts the LGTM comment body states>>
  exit_status,    \* <<>> while running, <<status>> once the process ended
  \* history, read by no action
  h_cancels,      \* task.cancel() calls, per task
  h_live,         \* a task was not done when handle_interrupt set the flag
  h_dropped,      \* per reviewer: a retry discarded a non-empty findings list
  h_log,          \* the texts the running attempt accepted as findings
  h_resumed,      \* per reviewer, while an attempt reads or waits for the
                  \* exit: it appended a finding after an undecodable line
  h_engine,       \* summarizer engine processes started
  h_answer        \* <<>>, then <<the engine's exit status and kind of output>>

vars == <<codex, reviewers, retries, interrupted, completed, task, delay, mpc,
          results, all_findings, aggregated, payload, summary, report, pr_action,
          lgtm_body, exit_status, h_cancels, h_live, h_dropped, h_log, h_resumed,
          h_engine, h_answer>>

inputVars == <<codex, reviewers, retries>>
mainVars == <<mpc, results, all_findings, aggregated, payload, summary,
              report, pr_action, lgtm_body, exit_status>>
histVars == <<h_cancels, h_live, h_dropped, h_log, h_resumed, h_engine,
              h_answer>>

\* Reviewer ids, `range(1, args.reviewers + 1)` (1200)
Ids == 1..reviewers

\* The tasks created so far, by reviewer id (state.tasks)
Tasks == DOMAIN task

\* --------------------------------------------------------- reviewer task
(* task[i].pc is the await the task is suspended at, or how it ended:      *)
(*   "start"        created by create_task, first step not yet run         *)
(*   "spawn"        await asyncio.create_subprocess_exec(...)   (716)      *)
(*   "reading"      await asyncio.wait_for(read_output(), ...)  (753)      *)
(*   "wait_exit"    await proc.wait()                           (754)      *)
(*   "timeout_wait" await proc.wait() in except TimeoutError    (764)      *)
(*   "cancel_wait"  await proc.wait() in except CancelledError  (771)      *)
(*   "sleep"        await asyncio.sleep(delay)                  (812)      *)
(*   "returned" | "raised" | "cancelled"   the task is done                *)
(* task[i].proc is the attempt's child process group: "none", "running",   *)
(* "killed" (SIGKILL sent, not yet waited for) or "reaped".                *)
(* A cancelled task gets CancelledError at the await it is suspended at    *)
(* (asyncio's documented behaviour); the step that handles it is part of   *)
(* the action that cancels.                                                *)
Settled == {"returned", "raised", "cancelled"}

TaskRec(p, a, fs, pe, to, res, pr) ==
  [pc |-> p, attempt |-> a, findings |-> fs, parse_errors |-> pe,
   timed_out |-> to, result |-> res, proc |-> pr]

\* A task returned `res`, raised, or was cancelled: its frames are gone.
Done(p, res, pr) == TaskRec(p, 0, <<>>, 0, FALSE, res, pr)

\* Mutation of NewFindings: the attempts of a reviewer share one list.
NewFindings_Shared(prev) == prev

\* `findings: List[Finding] = []` at the start of collect_findings (713);
\* `prev` is the list the attempt before collected.
NewFindings(prev) == <<>>

PrevFindings(res) == IF res = None THEN <<>> ELSE res.findings

\* Mutation of ReaderActive: read_output outlives the deadline of wait_for.
ReaderActive_AfterTimeout(p) == p \in {"reading", "timeout_wait"}

\* read_output runs, and can append, only while wait_for awaits it (753).
ReaderActive(p) == p = "reading"

\* Mutation of IsSuccess: the timeout's exit status counts as a success.
IsSuccess_NotPositive(r) == r.exit_code <= 0

\* `if result.exit_code == 0: return result` (803)
IsSuccess(r) == r.exit_code = 0

\* `assert result is not None; return result` (816-817), and run_reviewer's
\* `state.completed += 1; return result` (1195-1196).
Finish(t, res) ==
  IF res = None THEN Done("raised", None, t.proc)
  ELSE Done("returned", res, t.proc)

\* The top of iteration `a` of `for attempt in range(retries + 1)` with
\* `result` = res (797-801); `ok`: create_subprocess_exec starts the child
\* (it raises OSError otherwise, which nothing catches).  While an attempt
\* runs, the result of the attempt before is kept as None: no path reads it
\* before line 801 overwrites it or an exception leaves the function.
Enter(t, a, res, ok) ==
  IF a > retries \/ interrupted THEN Finish(t, res)
  ELSE IF ok THEN TaskRec("spawn", a, NewFindings(PrevFindings(res)), 0, FALSE,
                          None, "running")
  ELSE Done("raised", None, t.proc)

\* Mutation of AfterAttempt: a successful attempt is retried like a failure.
AfterAttempt_RetriesSuccess(t, r) ==
  IF t.attempt < retries
  THEN TaskRec("sleep", t.attempt, <<>>, 0, FALSE, r, "reaped")
  ELSE Finish([t EXCEPT !.proc = "reaped"], r)

\* After collect_findings returned r in iteration t.attempt (803-814).
AfterAttempt(t, r) ==
  IF IsSuccess(r) THEN Done("returned", r, "reaped")
  ELSE IF t.attempt < retries
       THEN TaskRec("sleep", t.attempt, <<>>, 0, FALSE, r, "reaped")
       ELSE Finish([t EXCEPT !.proc = "reaped"], r)

\* Mutation of OnCancel: the backoff sleep swallows the cancellation and
\* the loop goes on.
OnCancel_SleepGoesOn(t) ==
  CASE t.pc = "spawn" -> Done("cancelled", None, "reaped")
    [] t.pc \in {"reading", "wait_exit"} ->
         [t EXCEPT !.pc = "cancel_wait", !.proc = "killed"]
    [] t.pc = "timeout_wait" -> Done("cancelled", None, t.proc)
    [] OTHER -> t

\* task.cancel() on t: CancelledError at the await t is suspended at.
OnCancel(t) ==
  CASE t.pc = "spawn" ->
         \* outside collect_findings' try: the event loop closes the
         \* transport it was creating, which kills and waits for the child
         Done("cancelled", None, "reaped")
    [] t.pc \in {"reading", "wait_exit"} ->
         \* except CancelledError: os.killpg(...); await proc.wait()
         [t EXCEPT !.pc = "cancel_wait", !.proc = "killed"]
    [] t.pc = "timeout_wait" ->
         \* raised inside `except TimeoutError`: not caught, killpg was sent
         Done("cancelled", None, t.proc)
    [] t.pc = "sleep" ->
         \* except CancelledError: break (813-814)
         Finish(t, t.result)
    [] OTHER -> t


\* ------------------------------------------------------- reviewer output
(* One line of the child's merged stdout/stderr, by what read_output does  *)
(* with it (729-743):                                                      *)
(*   blank    empty after strip(): skipped                                 *)
(*   invalid  json.loads raises JSONDecodeError                            *)
(*   value    JSON, but not an object (array, number, string, null):       *)
(*            event.get raises AttributeError                              *)
(*   object   a JSON object; `item` is absent / not an object ("none") or  *)
(*            an object with a type and a text (<<>>: absent or empty)     *)
ItemTypes == {"agent_message", "reasoning"}

Lines ==
  {[kind |-> "blank"], [kind |-> "invalid"], [kind |-> "value"],
   [kind |-> "object", item |-> "none"]}
  \cup {[kind |-> "object", item |-> "dict", type |-> ty, text |-> tx] :
          ty \in ItemTypes, tx \in Texts \cup {<<>>}}

\* 739-742: the line is a finding event
IsFindingLine(l) ==
  /\ l.kind = "object"
  /\ l.item = "dict"
  /\ l.type = "agent_message"
  /\ l.text # <<>>

\* Lines of the attempt that changed a counter or the list so far.
Counted(t) == Len(t.findings) + t.parse_errors

\* Mutation of AfterLine: a line that does not decode ends the read loop
\* with an exception.
AfterLine_InvalidIsFatal(i, t, l) ==
  CASE l.kind \in {"invalid", "value"} -> Done("raised", None, t.proc)
    [] IsFindingLine(l) ->
         [t EXCEPT !.findings = Append(@, Finding(l.text, i))]
    [] OTHER -> t

\* The task after read_output handled line l (729-743).
AfterLine(i, t, l) ==
  CASE l.kind = "invalid" -> [t EXCEPT !.parse_errors = @ + 1]
    [] l.kind = "value" -> Done("raised", None, t.proc)
    [] IsFindingLine(l) ->
         [t EXCEPT !.findings = Append(@, Finding(l.text, i))]
    [] OTHER -> t

\* Exit statuses of a child that ended by itself (proc.returncode).
ExitCodes == {0, 1}

\* ------------------------------------------------------------- task steps
SetTask(i, t) == task' = [task EXCEPT ![i] = t]

\* `state.completed += 1` when the step made task i return.
Count(i, t) ==
  completed' = IF t.pc = "returned" /\ task[i].pc # "returned"
               THEN completed + 1 ELSE completed

\* Mutation of Backoff: the delay grows by one second per attempt.
Backoff_Linear(attempt) == attempt + 1

\* `delay = 2**attempt` (807)
Backoff(attempt) == 2 ^ attempt

\* `await asyncio.sleep(delay)` when the step left task i in its backoff
\* sleep (812); no sleep is pending otherwise.
Sleep(i, t) ==
  delay' = [delay EXCEPT ![i] = IF t.pc = "sleep" THEN <<Backoff(t.attempt)>>
                                ELSE <<>>]

\* The history of a step that takes task i to t.
Hist(i, t, log) ==
  /\ h_log' = [h_log EXCEPT ![i] = log]
  /\ h_dropped' =
       IF t.pc = "spawn" /\ task[i].pc = "sleep"
          /\ task[i].result.findings # <<>>
       THEN [h_dropped EXCEPT ![i] = TRUE] ELSE h_dropped
  /\ h_resumed' =
       [h_resumed EXCEPT ![i] =
          IF t.pc \notin {"reading", "wait_exit"} THEN FALSE
          ELSE @ \/ (Len(t.findings) > Len(task[i].findings)
                     /\ task[i].parse_errors > 0)]
  /\ UNCHANGED <<h_cancels, h_live, h_engine, h_answer>>

\* The first step of run_reviewer(i): up to the first await.
StartTask(i) ==
  /\ mpc = "gather"
  /\ task[i].pc = "start"
  /\ \E ok \in BOOLEAN :
       LET t == Enter(task[i], 0, None, ok) IN
         /\ SetTask(i, t) /\ Count(i, t) /\ Sleep(i, t) /\ Hist(i, t, <<>>)
  /\ UNCHANGED <<inputVars, interrupted, mainVars>>

\* create_subprocess_exec returned: wait_for(read_output()) starts (753).
Spawned(i) ==
  /\ task[i].pc = "spawn"
  /\ SetTask(i, [task[i] EXCEPT !.pc = "reading"])
  /\ UNCHANGED <<inputVars, interrupted, completed, delay, mainVars, histVars>>

\* read_output gets one line (729-751).
ReadLine(i) ==
  /\ ReaderActive(task[i].pc)
  /\ \E l \in Lines :
       /\ (l.kind = "invalid" \/ IsFindingLine(l)) => Counted(task[i]) < MaxLines
       /\ LET t == AfterLine(i, task[i], l) IN
            /\ SetTask(i, t)
            /\ Hist(i, t, IF IsFindingLine(l) THEN Append(h_log[i], l.text)
                          ELSE h_log[i])
  /\ UNCHANGED <<inputVars, interrupted, completed, delay, mainVars>>

\* The stream closes: read_output returns, wait_for returns (753-754).
StreamClosed(i) ==
  /\ task[i].pc = "reading"
  /\ SetTask(i, [task[i] EXCEPT !.pc = "wait_exit"])
  /\ UNCHANGED <<inputVars, interrupted, completed, delay, mainVars, histVars>>

\* proc.wait() returns: `exit_code = proc.returncode or 0`, the result is
\* built and handed to the retry loop (754-755, 774-783, 803-814).
ProcExited(i) ==
  /\ task[i].pc = "wait_exit"
  /\ \E code \in ExitCodes :
       LET r == ReviewerResult(i, task[i].findings, code,
                               task[i].parse_errors, task[i].timed_out)
           t == AfterAttempt(task[i], r)
       IN /\ SetTask(i, t) /\ Count(i, t) /\ Sleep(i, t)
          /\ Hist(i, t, h_log[i])
  /\ UNCHANGED <<inputVars, interrupted, mainVars>>

\* The deadline of wait_for passes: read_output is cancelled, TimeoutError
\* is raised, the handler kills the process group and waits (757-764).
Timeout(i) ==
  /\ task[i].pc = "reading"
  /\ SetTask(i, [task[i] EXCEPT !.pc = "timeout_wait", !.timed_out = TRUE,
                                !.proc = "killed"])
  /\ UNCHANGED <<inputVars, interrupted, completed, delay, mainVars, histVars>>

\* proc.wait() of the timeout handler returns (764, 774-783, 803-814).
TimeoutReaped(i) ==
  /\ task[i].pc = "timeout_wait"
  /\ LET r == ReviewerResult(i, task[i].findings, TIMEOUT_EXIT_CODE,
                             task[i].parse_errors, task[i].timed_out)
         t == AfterAttempt(task[i], r)
     IN /\ SetTask(i, t) /\ Count(i, t) /\ Sleep(i, t)
        /\ Hist(i, t, h_log[i])
  /\ UNCHANGED <<inputVars, interrupted, mainVars>>

\* proc.wait() of the cancellation handler returns: `raise` (771-772).
CancelReaped(i) ==
  /\ task[i].pc = "cancel_wait"
  /\ SetTask(i, Done("cancelled", None, "reaped"))
  /\ UNCHANGED <<inputVars, interrupted, completed, delay, mainVars, histVars>>

\* asyncio.sleep(delay) returns: the next iteration of the loop (812, 797).
SleepDone(i) ==
  /\ task[i].pc = "sleep"
  /\ \E ok \in BOOLEAN :
       LET t == Enter(task[i], task[i].attempt + 1, task[i].result, ok) IN
         /\ SetTask(i, t) /\ Count(i, t) /\ Sleep(i, t)
         /\ Hist(i, t, IF t.pc = "spawn" THEN <<>> ELSE h_log[i])
  /\ UNCHANGED <<inputVars, interrupted, mainVars>>

\* ------------------------------------------------------ handle_interrupt
\* SIGINT or SIGTERM is handled by the loop (1163-1175).  The loop runs a
\* signal callback only after the first steps of the tasks already created.
Running == mpc \in {"gather", "spinner", "summarize", "summ_spinner"}

\* Mutation of Interrupt: the handler does not look at the flag, every
\* signal cancels the tasks again.
Interrupt_EverySignal ==
  /\ Running
  /\ \A i \in Tasks : task[i].pc # "start"
  /\ interrupted' = TRUE
  /\ task' = [i \in Tasks |-> OnCancel(task[i])]
  /\ delay' = [i \in Tasks |-> IF OnCancel(task[i]).pc = "sleep"
                               THEN delay[i] ELSE <<>>]
  /\ completed' = completed
       + Cardinality({i \in Tasks : task[i].pc = "sleep"})
  /\ h_cancels' = [i \in Tasks |-> h_cancels[i] + 1]
  /\ h_live' = IF interrupted THEN h_live
               ELSE \E i \in Tasks : task[i].pc \notin Settled
  /\ UNCHANGED <<inputVars, mainVars, h_dropped, h_log, h_resumed, h_engine,
                 h_answer>>

Interrupt ==
  /\ Running
  /\ \A i \in Tasks : task[i].pc # "start"
  /\ IF interrupted
     THEN UNCHANGED <<interrupted, completed, task, delay, h_cancels, h_live>>
     ELSE /\ interrupted' = TRUE
          /\ task' = [i \in Tasks |-> OnCancel(task[i])]
          /\ delay' = [i \in Tasks |-> IF OnCancel(task[i]).pc = "sleep"
                                       THEN delay[i] ELSE <<>>]
          /\ completed' = completed
               + Cardinality({i \in Tasks : task[i].pc = "sleep"})
          /\ h_cancels' = [i \in Tasks |-> h_cancels[i] + 1]
          /\ h_live' = \E i \in Tasks : task[i].pc \notin Settled
  /\ UNCHANGED <<inputVars, mainVars, h_dropped, h_log, h_resumed, h_engine,
                 h_answer>>


\* ------------------------------------------------------------ aggregator
\* Position of text x among the keys of `seen`, 0 when it is not a key.
KeyIndex(seen, x) ==
  IF \E k \in 1..Len(seen) : seen[k].text = x
  THEN CHOOSE k \in 1..Len(seen) : seen[k].text = x
  ELSE 0

\* Mutation of See: a text keeps only the first reviewer seen with it.
See_FirstReviewerOnly(seen, f) ==
  LET normalized == strip(f.text)
      k == KeyIndex(seen, normalized)
  IN IF normalized = <<>> \/ k # 0 THEN seen
     ELSE Append(seen, [text |-> normalized, reviewers |-> <<f.iteration>>])

\* Mutation of See: a reviewer is added to a text each time it reports it.
See_Repeats(seen, f) ==
  LET normalized == strip(f.text)
      k == KeyIndex(seen, normalized)
  IN IF normalized = <<>> THEN seen
     ELSE IF k = 0
          THEN Append(seen, [text |-> normalized, reviewers |-> <<f.iteration>>])
          ELSE [seen EXCEPT ![k].reviewers = Append(@, f.iteration)]

\* Mutation of See: a text not seen before is put in front of the others.
See_NewestFirst(seen, f) ==
  LET normalized == strip(f.text)
      k == KeyIndex(seen, normalized)
  IN IF normalized = <<>> THEN seen
     ELSE IF k = 0
          THEN <<[text |-> normalized, reviewers |-> <<f.iteration>>]>> \o seen
          ELSE IF \E j \in 1..Len(seen[k].reviewers) :
                    seen[k].reviewers[j] = f.iteration
               THEN seen
               ELSE [seen EXCEPT ![k].reviewers = Append(@, f.iteration)]

\* One iteration of the loop of aggregate_findings (197-203); `seen` is the
\* dict, in insertion order.
See(seen, f) ==
  LET normalized == strip(f.text)
      k == KeyIndex(seen, normalized)
  IN IF normalized = <<>> THEN seen
     ELSE IF k = 0
          THEN Append(seen, [text |-> normalized, reviewers |-> <<f.iteration>>])
          ELSE IF \E j \in 1..Len(seen[k].reviewers) :
                    seen[k].reviewers[j] = f.iteration
               THEN seen
               ELSE [seen EXCEPT ![k].reviewers = Append(@, f.iteration)]

RECURSIVE SeeAll(_, _)
SeeAll(seen, fs) ==
  IF fs = <<>> THEN seen ELSE SeeAll(See(seen, Head(fs)), Tail(fs))

\* Mutation of sorted: the reviewers stay in the order they were seen.
sorted_Unsorted(s) == s

\* sorted(reviewers)
sorted(s) == SortSeq(s, LAMBDA a, b : a < b)

\* aggregate_findings (194-207)
aggregate_findings(fs) ==
  LET seen == SeeAll(<<>>, fs) IN
    [k \in 1..Len(seen) |->
       [text |-> seen[k].text, reviewers |-> sorted(seen[k].reviewers)]]

\* ------------------------------------------------------------ summarizer
(* The engine's answer: an exit status and its stdout, by what             *)
(* summarize_findings and its callers do with it (957-974, 996-998, 1282): *)
(*   empty    nothing after strip()                                        *)
(*   invalid  not JSON                                                     *)
(*   value    JSON, but not an object                                      *)
(*   object   a JSON object whose "findings" is absent, a list of n        *)
(*            groups, or another value (n = 1 truthy, n = 0 falsy)         *)
FindingsFields ==
  {[ty |-> "absent", n |-> 0], [ty |-> "other", n |-> 0],
   [ty |-> "other", n |-> 1]}
  \cup {[ty |-> "list", n |-> k] : k \in 0..MaxGroups}

EngineOutputs ==
  {[kind |-> "empty"], [kind |-> "invalid"], [kind |-> "value"]}
  \cup {[kind |-> "object", findings |-> ff] : ff \in FindingsFields}

EngineCodes == {0, 1}

\* GroupedFindings(findings=[])
EmptyGrouped == [kind |-> "object", findings |-> [ty |-> "list", n |-> 0]]

\* No summarize_findings call yet.
NoSummary == [none |-> TRUE]

\* Mutation of PayloadOf: the ids count from one.
PayloadOf_OneBased(agg) ==
  [k \in 1..Len(agg) |->
     [id |-> k, text |-> agg[k].text, reviewers |-> agg[k].reviewers]]

\* The array of {id, text, reviewers} objects, `enumerate(aggregated)`
\* (940-945); json.dumps keeps the order, the texts and the ids.
PayloadOf(agg) ==
  [k \in 1..Len(agg) |->
     [id |-> k - 1, text |-> agg[k].text, reviewers |-> agg[k].reviewers]]

\* Mutation of NoEngineSummary: an empty list is answered with a failure.
NoEngineSummary_Failed ==
  [grouped |-> EmptyGrouped, exit_code |-> 1, raw |-> "empty"]

\* summarize_findings for an empty list: no engine (935-936)
NoEngineSummary == [grouped |-> EmptyGrouped, exit_code |-> 0, raw |-> "empty"]

\* summarize_findings once the engine answered `out` with status `code`
\* (957-974); `proc.returncode or 0` is `code`.
SummaryOf(code, out) ==
  CASE out.kind = "empty" ->
         [grouped |-> EmptyGrouped, exit_code |-> code, raw |-> "empty"]
    [] out.kind = "invalid" ->
         [grouped |-> EmptyGrouped, exit_code |-> 1, raw |-> "invalid"]
    [] OTHER -> [grouped |-> out, exit_code |-> code, raw |-> out.kind]

\* --------------------------------------------------------------- results
\* `isinstance(result, Exception)` (1227): CancelledError is a BaseException
IsException(r) == r = TaskException

\* Mutation of AllFailed: tasks that raised are not counted as failures.
AllFailed_NoExceptions(failed, timed, exceptions, n) == failed + timed >= n

\* `total_failures >= args.reviewers` (1243-1244)
AllFailed(failed, timed, exceptions, n) == failed + timed + exceptions >= n

\* The loop over results (1226-1240); rs is a sequence like gather's.
ResultIds(rs) == {k \in 1..Len(rs) : ~IsException(rs[k])}
failed_iters(rs) ==
  {k \in ResultIds(rs) : ~rs[k].timed_out /\ rs[k].exit_code # 0}
timed_out_iters(rs) == {k \in ResultIds(rs) : rs[k].timed_out}
\* Mutation of exception_count: the tasks that raised are not counted.
exception_count_Zero(rs) == 0

exception_count(rs) == Cardinality({k \in 1..Len(rs) : IsException(rs[k])})

RECURSIVE SumParseErrors(_, _)
SumParseErrors(rs, k) ==
  IF k = 0 THEN 0
  ELSE SumParseErrors(rs, k - 1)
       + (IF IsException(rs[k]) THEN 0 ELSE rs[k].parse_errors)

\* Mutation of Extend: only the findings of successful results are kept.
RECURSIVE Extend_SuccessOnly(_, _)
Extend_SuccessOnly(rs, k) ==
  IF k = 0 THEN <<>>
  ELSE Extend_SuccessOnly(rs, k - 1)
       \o (IF IsException(rs[k]) \/ rs[k].exit_code # 0 THEN <<>>
           ELSE rs[k].findings)

\* all_findings after the loop: every result's findings, in task order
RECURSIVE Extend(_, _)
Extend(rs, k) ==
  IF k = 0 THEN <<>>
  ELSE Extend(rs, k - 1) \o (IF IsException(rs[k]) THEN <<>> ELSE rs[k].findings)


\* `args.reviewers - len(failed_iters) - len(timed_out_iters)` (1285)
successful_reviewers(rs, n) ==
  n - Cardinality(failed_iters(rs)) - Cardinality(timed_out_iters(rs))

\* render_lgtm_markdown (547-569), by the counts of its
\* "N of M reviewers found no issues" line.
render_lgtm_markdown(total_reviewers, n) ==
  [successful |-> n, total |-> total_reviewers]

\* ---------------------------------------------------------------- report
\* `findings` as render_report reads it: not a list counts as [] (996-998)
ListedGroups(grouped) ==
  IF grouped.findings.ty = "list" THEN grouped.findings.n ELSE 0

\* `findings = grouped.get("findings", [])` is truthy (1282, 1287)
Truthy(grouped) ==
  CASE grouped.findings.ty = "absent" -> FALSE
    [] OTHER -> grouped.findings.n > 0

\* render_report (977-1124), by the sections it writes.
render_report(sm, pe, failed, timed) ==
  IF sm.exit_code # 0
  THEN [error |-> TRUE, raw |-> sm.raw # "empty", warnings |-> FALSE,
        body |-> "none", groups |-> 0]
  ELSE [error |-> FALSE, raw |-> FALSE,
        warnings |-> (pe > 0 \/ failed # {} \/ timed # {}),
        body |-> IF ListedGroups(sm.grouped) = 0 THEN "lgtm" ELSE "findings",
        groups |-> ListedGroups(sm.grouped)]

\* --------------------------------------------------------------- PR flow
(* What the environment answers to the PR flow: local, yes, no are the     *)
(* flags; gh: `gh` is in PATH; pr: the branch has an open PR; ci: what     *)
(* check_ci_status finds; confirm: the user answers y; exec_ok: the gh     *)
(* command succeeds.  A field the flow does not read is FALSE.             *)
Env(local, yes, no, gh, pr, ci, confirm, exec_ok) ==
  [local |-> local, yes |-> yes, no |-> no, gh |-> gh, pr |-> pr, ci |-> ci,
   confirm |-> confirm, exec_ok |-> exec_ok]

\* The answers confirm_and_execute_pr_action can get, each once.
ActionEnvs ==
  {Env(TRUE, FALSE, FALSE, FALSE, FALSE, "passed", FALSE, FALSE),
   Env(FALSE, FALSE, TRUE, FALSE, FALSE, "passed", FALSE, FALSE),
   Env(FALSE, FALSE, FALSE, FALSE, FALSE, "passed", FALSE, FALSE),
   Env(FALSE, FALSE, FALSE, TRUE, FALSE, "passed", FALSE, FALSE),
   Env(FALSE, FALSE, FALSE, TRUE, TRUE, "passed", FALSE, FALSE)}
  \cup {Env(FALSE, yes, FALSE, TRUE, TRUE, "passed", ~yes, exec_ok) :
          yes \in BOOLEAN, exec_ok \in BOOLEAN}

\* The findings flow does not check the CI status.
FindingsEnvs == ActionEnvs

\* The LGTM flow checks it first, when there is a PR to approve.
LgtmEnvs ==
  ActionEnvs
  \cup {Env(FALSE, FALSE, FALSE, TRUE, TRUE, ci, FALSE, FALSE) :
          ci \in {"blocked", "error"}}

\* confirm_and_execute_pr_action (336-403): [executed, error]
confirm_and_execute_pr_action(e) ==
  IF e.local \/ e.no THEN [executed |-> FALSE, error |-> FALSE]
  ELSE IF ~e.gh THEN [executed |-> FALSE, error |-> TRUE]
  ELSE IF ~e.pr THEN [executed |-> FALSE, error |-> FALSE]
  ELSE IF ~(e.yes \/ e.confirm) THEN [executed |-> FALSE, error |-> FALSE]
  ELSE [executed |-> e.exec_ok, error |-> ~e.exec_ok]

\* The LGTM flow of run_review (1287-1370): [status, action]
LgtmFlow(e) ==
  LET checks == ~e.local /\ ~e.no
      x == confirm_and_execute_pr_action(e)
  IN IF checks /\ ~e.gh THEN [status |-> EXIT_ERROR, action |-> "none"]
     ELSE IF checks /\ e.pr /\ e.ci = "error"
          THEN [status |-> EXIT_ERROR, action |-> "none"]
     ELSE IF checks /\ e.pr /\ e.ci # "passed"
          THEN [status |-> EXIT_NO_FINDINGS, action |-> "none"]
     ELSE IF x.error THEN [status |-> EXIT_ERROR, action |-> "none"]
     ELSE [status |-> EXIT_NO_FINDINGS,
           action |-> IF x.executed THEN "approve" ELSE "none"]

\* The findings flow of run_review (1372-1402): [status, action]
FindingsFlow(e) ==
  LET x == confirm_and_execute_pr_action(e) IN
    IF x.error THEN [status |-> EXIT_ERROR, action |-> "none"]
    ELSE [status |-> EXIT_FINDINGS,
          action |-> IF x.executed THEN "comment" ELSE "none"]

\* ------------------------------------------------------------- main task
(* mpc: "main" (main() not yet run), "gather" (1204), "spinner" (gather    *)
(* is done, run_review is about to resume or awaits the spinner, 1213),    *)
(* "summarize" (proc.communicate, 954), "summ_spinner" (1262), "exited"    *)
(* (main returned a status), "crashed" (an exception left main).           *)
Exit(status) ==
  /\ mpc' = "exited"
  /\ exit_status' = <<status>>

Crash ==
  /\ mpc' = "crashed"
  /\ exit_status' = <<PY_UNCAUGHT_STATUS>>

\* main() up to `await asyncio.gather` (1411-1418, 1154-1204).
Main ==
  /\ mpc = "main"
  /\ IF ~codex \/ reviewers < 1
     THEN /\ Exit(EXIT_ERROR)
          /\ UNCHANGED <<task, delay, h_cancels, h_dropped, h_log, h_resumed>>
     ELSE /\ mpc' = "gather"
          /\ task' = [i \in Ids |-> TaskRec("start", 0, <<>>, 0, FALSE, None, "none")]
          /\ delay' = [i \in Ids |-> <<>>]
          /\ h_cancels' = [i \in Ids |-> 0]
          /\ h_dropped' = [i \in Ids |-> FALSE]
          /\ h_log' = [i \in Ids |-> <<>>]
          /\ h_resumed' = [i \in Ids |-> FALSE]
          /\ UNCHANGED exit_status
  /\ UNCHANGED <<inputVars, interrupted, completed, results, all_findings,
                 aggregated, payload, summary, report, pr_action, lgtm_body,
                 h_live, h_engine, h_answer>>

\* What gather(*tasks, return_exceptions=True) stores for task t.
Gathered(t) ==
  CASE t.pc = "returned" -> t.result
    [] t.pc = "raised" -> TaskException
    [] OTHER -> TaskCancelled

\* Mutation of GatherReturns: gather returns as soon as one task is done.
GatherReturns_FirstDone ==
  /\ mpc = "gather"
  /\ \E i \in Ids : task[i].pc \in Settled
  /\ mpc' = "spinner"
  /\ results' = [i \in Ids |-> Gathered(task[i])]
  /\ UNCHANGED <<inputVars, interrupted, completed, task, delay,
                 all_findings, aggregated, payload, summary, report,
                 pr_action, lgtm_body, exit_status, histVars>>

\* Every task is done: gather's future gets its result (1204).
GatherReturns ==
  /\ mpc = "gather"
  /\ \A i \in Ids : task[i].pc \in Settled
  /\ mpc' = "spinner"
  /\ results' = [i \in Ids |-> Gathered(task[i])]
  /\ UNCHANGED <<inputVars, interrupted, completed, task, delay,
                 all_findings, aggregated, payload, summary, report,
                 pr_action, lgtm_body, exit_status, histVars>>

\* run_review from the return of gather to the await in or after
\* summarize_findings (1210-1260, 931-954).
AfterGather ==
  /\ mpc = "spinner"
  /\ IF interrupted
     THEN /\ Exit(EXIT_INTERRUPTED)
          /\ UNCHANGED <<all_findings, aggregated, payload, summary, h_engine>>
     ELSE IF \E k \in Ids : results[k] = TaskCancelled
     THEN /\ Crash
          /\ UNCHANGED <<all_findings, aggregated, payload, summary, h_engine>>
     ELSE IF AllFailed(Cardinality(failed_iters(results)),
                       Cardinality(timed_out_iters(results)),
                       exception_count(results), reviewers)
     THEN /\ Exit(EXIT_ERROR)
          /\ all_findings' = Extend(results, reviewers)
          /\ UNCHANGED <<aggregated, payload, summary, h_engine>>
     ELSE LET all == Extend(results, reviewers)
              agg == aggregate_findings(all)
          IN /\ all_findings' = all
             /\ aggregated' = agg
             /\ UNCHANGED exit_status
             /\ IF agg = <<>>
                THEN /\ summary' = NoEngineSummary
                     /\ mpc' = "summ_spinner"
                     /\ UNCHANGED <<payload, h_engine>>
                ELSE /\ mpc' = "summarize"
                     /\ payload' = PayloadOf(agg)
                     /\ h_engine' = h_engine + 1
                     /\ UNCHANGED summary
  /\ UNCHANGED <<inputVars, interrupted, completed, task, delay, results,
                 report, pr_action, lgtm_body, h_cancels, h_live, h_dropped,
                 h_log, h_resumed, h_answer>>

\* The engine answered: proc.communicate returns (954-974).
EngineAnswers ==
  /\ mpc = "summarize"
  /\ \E code \in EngineCodes, out \in EngineOutputs :
       /\ summary' = SummaryOf(code, out)
       /\ h_answer' = <<[code |-> code, kind |-> out.kind]>>
  /\ mpc' = "summ_spinner"
  /\ UNCHANGED <<inputVars, interrupted, completed, task, delay, results,
                 all_findings, aggregated, payload, report, pr_action,
                 lgtm_body, exit_status, h_cancels, h_live, h_dropped, h_log, h_resumed,
                 h_engine>>

\* run_review from render_report to its return (1265-1402).
Report ==
  /\ mpc = "summ_spinner"
  /\ IF summary.grouped.kind # "object"
     THEN \* grouped.get raises AttributeError in render_report (996)
          /\ Crash
          /\ UNCHANGED <<report, pr_action, lgtm_body>>
     ELSE /\ report' = <<render_report(summary, SumParseErrors(results, reviewers),
                                       failed_iters(results),
                                       timed_out_iters(results))>>
          /\ IF summary.exit_code # 0
             THEN /\ Exit(EXIT_ERROR)
                  /\ UNCHANGED <<pr_action, lgtm_body>>
             ELSE /\ lgtm_body' =
                       IF Truthy(summary.grouped) THEN lgtm_body
                       ELSE <<render_lgtm_markdown(
                                reviewers,
                                successful_reviewers(results, reviewers))>>
                  /\ \E e \in IF Truthy(summary.grouped) THEN FindingsEnvs
                                ELSE LgtmEnvs :
                       LET x == IF Truthy(summary.grouped) THEN FindingsFlow(e)
                                ELSE LgtmFlow(e)
                       IN /\ Exit(x.status)
                          /\ pr_action' = x.action
  /\ UNCHANGED <<inputVars, interrupted, completed, task, delay, results,
                 all_findings, aggregated, payload, summary, histVars>>

\* ------------------------------------------------------------------ spec
RetryValues == (0 - 1)..MaxRetries

Init ==
  /\ codex \in BOOLEAN
  /\ reviewers \in ReviewerCounts
  /\ retries \in RetryValues
  /\ interrupted = FALSE
  /\ completed = 0
  /\ task = <<>>
  /\ delay = <<>>
  /\ mpc = "main"
  /\ results = <<>>
  /\ all_findings = <<>>
  /\ aggregated = <<>>
  /\ payload = <<>>
  /\ summary = NoSummary
  /\ report = <<>>
  /\ pr_action = "none"
  /\ lgtm_body = <<>>
  /\ exit_status = <<>>
  /\ h_cancels = <<>>
  /\ h_live = FALSE
  /\ h_dropped = <<>>
  /\ h_log = <<>>
  /\ h_resumed = <<>>
  /\ h_engine = 0
  /\ h_answer = <<>>

Next ==
  \/ Main
  \/ \E i \in Tasks : StartTask(i)
  \/ \E i \in Tasks : Spawned(i)
  \/ \E i \in Tasks : ReadLine(i)
  \/ \E i \in Tasks : StreamClosed(i)
  \/ \E i \in Tasks : ProcExited(i)
  \/ \E i \in Tasks : Timeout(i)
  \/ \E i \in Tasks : TimeoutReaped(i)
  \/ \E i \in Tasks : CancelReaped(i)
  \/ \E i \in Tasks : SleepDone(i)
  \/ Interrupt
  \/ GatherReturns
  \/ AfterGather
  \/ EngineAnswers
  \/ Report

Spec == Init /\ [][Next]_vars

\* ------------------------------------------- aggregate_findings, by itself
\* aggregate_findings on any list of findings: the list is drawn at the
\* start, one step applies the function to it.
MaxAggLen == 3
AggIds == 1..3
AggTexts ==
  { <<>>, <<" ">>, <<"a">>, <<" ", "a">>, <<"a", "\t">>, <<"A">>,
    <<" ", " ", "a">> }
AggFindings == {Finding(t, i) : t \in AggTexts, i \in AggIds}
AggInputs == UNION {[1..n -> AggFindings] : n \in 0..MaxAggLen}

InitAgg ==
  /\ all_findings \in AggInputs
  /\ aggregated = <<>>
  /\ payload = <<>>
  /\ mpc = "aggregate"
  /\ codex = TRUE
  /\ reviewers = 3
  /\ retries = 0
  /\ interrupted = FALSE
  /\ completed = 0
  /\ task = <<>>
  /\ delay = <<>>
  /\ results = <<>>
  /\ summary = NoSummary
  /\ report = <<>>
  /\ pr_action = "none"
  /\ lgtm_body = <<>>
  /\ exit_status = <<>>
  /\ h_cancels = <<>>
  /\ h_live = FALSE
  /\ h_dropped = <<>>
  /\ h_log = <<>>
  /\ h_resumed = <<>>
  /\ h_engine = 0
  /\ h_answer = <<>>

\* `aggregated = aggregate_findings(all_findings)` (1249) and, for a list
\* that is not empty, the array summarize_findings builds from it (940-945).
Aggregate ==
  /\ mpc = "aggregate"
  /\ LET agg == aggregate_findings(all_findings) IN
       /\ aggregated' = agg
       /\ payload' = IF agg = <<>> THEN <<>> ELSE PayloadOf(agg)
  /\ mpc' = "aggregated"
  /\ UNCHANGED <<inputVars, interrupted, completed, task, delay, results,
                 all_findings, summary, report, pr_action, lgtm_body,
                 exit_status, histVars>>

NextAgg == Aggregate

SpecAgg == InitAgg /\ [][NextAgg]_vars

\* ------------------------------------------------- one reviewer, retried
\* A run with one reviewer and up to MaxBackoffRetries retries: the retry
\* loop gets as far as its fourth attempt.
MaxBackoffRetries == 3

InitRetry ==
  /\ codex = TRUE
  /\ reviewers = 1
  /\ retries \in 0..MaxBackoffRetries
  /\ interrupted = FALSE
  /\ completed = 0
  /\ task = <<>>
  /\ delay = <<>>
  /\ mpc = "main"
  /\ results = <<>>
  /\ all_findings = <<>>
  /\ aggregated = <<>>
  /\ payload = <<>>
  /\ summary = NoSummary
  /\ report = <<>>
  /\ pr_action = "none"
  /\ lgtm_body = <<>>
  /\ exit_status = <<>>
  /\ h_cancels = <<>>
  /\ h_live = FALSE
  /\ h_dropped = <<>>
  /\ h_log = <<>>
  /\ h_resumed = <<>>
  /\ h_engine = 0
  /\ h_answer = <<>>

SpecRetry == InitRetry /\ [][Next]_vars

\* ================================================================ claims
Ended == mpc \in {"exited", "crashed"}

\* The final outcome of task t is a failure: it raised, or it returned a
\* result that timed out or has a non-zero exit status.
FinalFailed(t) ==
  \/ t.pc = "raised"
  \/ t.pc = "returned" /\ (t.result.timed_out \/ t.result.exit_code # 0)

\* Every reviewer task is done and none succeeded.
AllReviewersFailed ==
  /\ Tasks # {}
  /\ \A i \in Tasks : FinalFailed(task[i])

TextsOf(fs) == [k \in 1..Len(fs) |-> fs[k].text]

\* The findings of reviewer i in fs, in order.
RECURSIVE ByReviewer(_, _)
ByReviewer(fs, i) ==
  IF fs = <<>> THEN <<>>
  ELSE (IF Head(fs).iteration = i THEN <<Head(fs)>> ELSE <<>>)
       \o ByReviewer(Tail(fs), i)

\* aggregate_findings was called in this run.
AggregatorInvoked == mpc = "summarize" \/ summary # NoSummary

\* Finding groups the report lists for summary sm.
GroupsOf(sm) ==
  IF sm.grouped.kind = "object" THEN ListedGroups(sm.grouped) ELSE 0

SummarizerSucceeded == summary # NoSummary /\ summary.exit_code = 0
SummarizerFailed == summary # NoSummary /\ summary.exit_code # 0

\* ---------------------------------------------------------------- C1
\* C1: a run whose interrupt flag was set before its report was printed
\* (the handler runs only before the report, so: a run that ended with the
\* flag set) ended with status 130 and printed no report.
\* Fails: the flag set while the summarizer runs is never read again.
C1_InterruptWins ==
  (Ended /\ interrupted) =>
    (exit_status = <<EXIT_INTERRUPTED>> /\ report = <<>>)

\* ---------------------------------------------------------------- C2
\* C2: when the interrupt arrived while a reviewer task was not done, then
\* at the end of the run every task got cancel(), no reviewer child is
\* left running, the aggregator and the summarizer were not invoked, no
\* report was printed and the status is 130.
\* Fails on the children: a task that raised while reading (C7) is done,
\* cancel() does nothing to it and its child keeps running.
C2_InterruptWhileRunning ==
  (Ended /\ h_live) =>
    /\ \A i \in Tasks : h_cancels[i] >= 1
    /\ \A i \in Tasks : task[i].proc # "running"
    /\ ~AggregatorInvoked /\ aggregated = <<>>
    /\ h_engine = 0
    /\ report = <<>>
    /\ exit_status = <<EXIT_INTERRUPTED>>

\* What C2 says apart from the children left by C7's divergence: it holds.
C2_ExceptChildren ==
  (Ended /\ h_live) =>
    /\ \A i \in Tasks : h_cancels[i] >= 1
    /\ \A i \in Tasks :
         task[i].proc = "running" => task[i].pc = "raised"
    /\ ~AggregatorInvoked /\ aggregated = <<>>
    /\ h_engine = 0
    /\ report = <<>>
    /\ exit_status = <<EXIT_INTERRUPTED>>

\* ---------------------------------------------------------------- C3
\* C3: in a run that was not interrupted, when every reviewer's final
\* outcome is a failed exit, a timeout or an exception, the summarizer
\* engine is never started and the run ends with status 2 (Error).
C3_AllFailedIsError ==
  (AllReviewersFailed /\ ~interrupted) =>
    /\ h_engine = 0
    /\ summary = NoSummary
    /\ mpc \in {"gather", "spinner", "exited"}
    /\ mpc = "exited" => exit_status = <<EXIT_ERROR>>

\* Two reviewers, one raised and one timed out on its last attempt: Error.
C3_Witness ==
  /\ mpc = "exited" /\ ~interrupted /\ Tasks = {1, 2}
  /\ task[1].pc = "raised"
  /\ task[2].pc = "returned" /\ task[2].result.timed_out
  /\ exit_status = <<EXIT_ERROR>>
  /\ h_engine = 0

\* ---------------------------------------------------------------- C4
\* C4: the findings of a reviewer's result are exactly the findings its
\* last executed attempt accepted (h_log, emptied when an attempt starts),
\* and so are the findings of that reviewer the aggregator receives;
\* nothing an earlier attempt collected is among them.
C4_LastAttemptOnly ==
  \A i \in Tasks :
    /\ task[i].pc \in {"sleep", "returned"} =>
         /\ TextsOf(task[i].result.findings) = h_log[i]
         /\ \A k \in 1..Len(task[i].result.findings) :
              task[i].result.findings[k].iteration = i
    /\ AggregatorInvoked =>
         /\ TextsOf(ByReviewer(all_findings, i))
              = IF task[i].pc = "returned" THEN h_log[i] ELSE <<>>
         /\ aggregated = aggregate_findings(all_findings)

\* A reviewer whose first attempt collected a finding and failed, and whose
\* retry collected one finding: the aggregator gets that one.
C4_Witness ==
  /\ mpc = "summarize"
  /\ reviewers = 1 /\ h_dropped[1]
  /\ task[1].pc = "returned"
  /\ Len(h_log[1]) = 1
  /\ Len(all_findings) = 1
  /\ Len(aggregated) = 1

\* ---------------------------------------------------------------- C5
\* C5: a run that ended has one of the four statuses 0, 1, 2, 130, which
\* are pairwise distinct; 0 only when the summarizer succeeded with zero
\* finding groups, 1 only when it succeeded with at least one group; and,
\* interrupts apart, 2 whenever a dependency is missing, all reviewers
\* failed or the summarizer failed.
\* Fails: a summarizer answer whose "findings" is not a list is reported
\* as zero groups but returns 1, and an answer that is not an object ends
\* the process with an uncaught exception.
C5_ExitContract ==
  /\ Cardinality({EXIT_NO_FINDINGS, EXIT_FINDINGS, EXIT_ERROR,
                  EXIT_INTERRUPTED}) = 4
  /\ Ended =>
       /\ exit_status \in {<<EXIT_NO_FINDINGS>>, <<EXIT_FINDINGS>>,
                           <<EXIT_ERROR>>, <<EXIT_INTERRUPTED>>}
       /\ exit_status = <<EXIT_NO_FINDINGS>> =>
            SummarizerSucceeded /\ GroupsOf(summary) = 0
       /\ exit_status = <<EXIT_FINDINGS>> =>
            SummarizerSucceeded /\ GroupsOf(summary) >= 1
       /\ (~interrupted /\ (~codex \/ AllReviewersFailed \/ SummarizerFailed))
            => exit_status = <<EXIT_ERROR>>

\* ---------------------------------------------------------------- C6
\* The positions of s that hold no whitespace, and s without the
\* whitespace before the first and after the last of them.
NonSpace(s) == {k \in 1..Len(s) : s[k] \notin Whitespace}
Trimmed(s) ==
  IF NonSpace(s) = {} THEN <<>>
  ELSE LET a == CHOOSE k \in NonSpace(s) : \A j \in NonSpace(s) : k <= j
           b == CHOOSE k \in NonSpace(s) : \A j \in NonSpace(s) : j <= k
       IN SubSeq(s, a, b)

\* C6: aggregate_findings returns exactly one entry per distinct trimmed
\* non-empty text of its input (case matters, empty-after-trim dropped), and
\* an entry's reviewers are, ascending and without duplicates, the ids of
\* the reviewers with a finding of that text.
C6_Aggregate ==
  mpc = "aggregated" =>
    LET in == all_findings
        out == aggregated
        Keys == {Trimmed(in[k].text) : k \in 1..Len(in)} \ {<<>>}
    IN /\ {out[k].text : k \in 1..Len(out)} = Keys
       /\ Len(out) = Cardinality(Keys)
       /\ \A k \in 1..Len(out) :
            LET rs == out[k].reviewers
                R == {in[j].iteration :
                        j \in {n \in 1..Len(in) : Trimmed(in[n].text) = out[k].text}}
            IN /\ {rs[j] : j \in 1..Len(rs)} = R
               /\ \A j \in 1..(Len(rs) - 1) : rs[j] < rs[j + 1]

\* " a" by reviewer 2, "a<tab>" by reviewer 1, " " by reviewer 3: one entry,
\* "a", by reviewers 1 and 2.
C6_Witness ==
  /\ mpc = "aggregated"
  /\ all_findings = <<Finding(<<" ", "a">>, 2), Finding(<<"a", "\t">>, 1),
                      Finding(<<" ">>, 3)>>
  /\ aggregated = <<[text |-> <<"a">>, reviewers |-> <<1, 2>>]>>

\* ---------------------------------------------------------------- C7
\* C7: once an attempt has ended, by any path (the task sleeps before a
\* retry or is done), its child is not left running.
\* Fails: an exception other than TimeoutError and CancelledError raised
\* while reading leaves collect_findings without killpg and without wait.
C7_NoChildLeft ==
  \A i \in Tasks :
    task[i].pc \in Settled \cup {"sleep"} => task[i].proc # "running"

\* ---------------------------------------------------------------- C8
\* C8: when the summarizer engine (started for a non-empty aggregated
\* list) exits non-zero, or writes nothing, or writes something that is
\* not JSON, summarize_findings returns a non-zero status and the run ends
\* with status 2.
\* Fails: no output with exit status 0 is returned as status 0, no groups.
C8_SummarizerFailure ==
  (h_answer # <<>>
   /\ (h_answer[1].code # 0 \/ h_answer[1].kind \in {"empty", "invalid"})) =>
    /\ aggregated # <<>>
    /\ summary.exit_code # 0
    /\ Ended => exit_status = <<EXIT_ERROR>>

\* ---------------------------------------------------------------- C9
\* A task waiting in the timeout handler has set timed_out and sent the
\* kill; a result that timed out has exit status -1 and a reaped child.
C9_State ==
  \A i \in Tasks :
    /\ task[i].pc = "timeout_wait" =>
         task[i].timed_out /\ task[i].proc = "killed"
    /\ (task[i].pc \in {"sleep", "returned"} /\ task[i].result.timed_out) =>
         /\ task[i].result.exit_code = TIMEOUT_EXIT_CODE
         /\ task[i].result.exit_code # 0
         /\ task[i].proc = "reaped"

\* The step that ends a timed-out attempt without a cancellation builds the
\* result from what was collected, and the retry loop goes on to the
\* backoff sleep unless this was the last attempt.
C9_Step ==
  \A i \in Tasks :
    /\ (task[i].pc = "reading" /\ task'[i].pc = "timeout_wait") =>
         task'[i].findings = task[i].findings
    /\ (task[i].pc = "timeout_wait"
        /\ task'[i].pc \notin {"timeout_wait", "cancelled"}) =>
         /\ task'[i].result
              = ReviewerResult(i, task[i].findings, TIMEOUT_EXIT_CODE,
                               task[i].parse_errors, TRUE)
         /\ task'[i].proc = "reaped"
         /\ task'[i].pc
              = IF task[i].attempt < retries THEN "sleep" ELSE "returned"

\* C9: when the deadline passes before the stream closes, the process
\* group is sent SIGKILL, the child is reaped before the result exists, the
\* result has timed_out and exit status -1 whatever was collected, and the
\* retry loop never takes it for a success.
C9_Timeout == []C9_State /\ [][C9_Step]_vars

\* A first attempt that timed out with two findings, before its retry.
C9_Witness ==
  \E i \in Tasks :
    /\ task[i].pc = "sleep"
    /\ task[i].result.timed_out
    /\ task[i].result.exit_code = TIMEOUT_EXIT_CODE
    /\ Len(task[i].result.findings) = 2
    /\ task[i].proc = "reaped"

\* --------------------------------------------------------------- C10
\* C10: from the step that raises TimeoutError on, the attempt's findings
\* do not change: the result has the findings the list held at the timeout.
C10_FrozenAtTimeout ==
  [][\A i \in Tasks :
       task[i].pc = "timeout_wait" =>
         /\ h_log'[i] = h_log[i]
         /\ task'[i].pc = "timeout_wait" =>
              task'[i].findings = task[i].findings
         /\ task'[i].pc \in {"sleep", "returned"} =>
              task'[i].result.findings = task[i].findings]_vars

\* A timed-out last attempt that returned the one finding it had collected.
C10_Witness ==
  \E i \in Tasks :
    /\ task[i].pc = "returned"
    /\ task[i].result.timed_out
    /\ Len(task[i].result.findings) = 1
    /\ TextsOf(task[i].result.findings) = h_log[i]

C12_OtherShapesIgnored ==
  \A i \in Tasks :
    ReaderActive(task[i].pc) =>
      \A l \in {x \in Lines : x.kind \in {"value", "object"}
                                /\ ~IsFindingLine(x)} :
        AfterLine(i, task[i], l) = task[i]

\* What C12 says of the lines that are JSON objects: it holds.
C12_ObjectsIgnored ==
  \A i \in Tasks :
    ReaderActive(task[i].pc) =>
      \A l \in {x \in Lines : x.kind = "object" /\ ~IsFindingLine(x)} :
        AfterLine(i, task[i], l) = task[i]

\* --------------------------------------------------------------- C13
\* The pcs of a task inside the retry loop.
InLoop == {"spawn", "reading", "wait_exit", "timeout_wait", "cancel_wait",
           "sleep"}

\* The loop index of a task inside the loop is one of 0..retries, and a
\* result with exit status 0 is held only by a task that returned.
C13_State ==
  \A i \in Tasks :
    /\ task[i].pc \in InLoop => task[i].attempt \in 0..retries
    /\ (task[i].result # None /\ task[i].result.exit_code = 0) =>
         task[i].pc = "returned"

\* A child is started either for index 0 by the task's first step, or for
\* the next index after a backoff sleep that follows a result whose exit
\* status is not 0; the index changes in no other way while the task is in
\* the loop, and a task that is done stays as it is.
C13_Step ==
  \A i \in Tasks :
    /\ (task'[i].pc = "spawn" /\ task[i].pc # "spawn") =>
         \/ task[i].pc = "start" /\ task'[i].attempt = 0
         \/ /\ task[i].pc = "sleep"
            /\ task'[i].attempt = task[i].attempt + 1
            /\ task[i].result.exit_code # 0
    /\ (task'[i].pc \in InLoop /\ task'[i].pc # "spawn") =>
         task'[i].attempt = task[i].attempt
    /\ task[i].pc \in Settled => task'[i] = task[i]

\* C13: a reviewer starts at most retries + 1 children (one per loop index
\* 0..retries, in order), and none after an attempt that returned exit
\* status 0.
C13_AttemptsBounded == []C13_State /\ [][C13_Step]_vars

\* The child of the last allowed attempt is being started after a retry.
C13_Witness ==
  \E i \in Tasks :
    /\ retries >= 1
    /\ task[i].pc = "spawn"
    /\ task[i].attempt = retries

\* --------------------------------------------------------------- C14
\* A task that returned holds one result, its own, with the findings of
\* the last attempt it ran; a task about to enter the retry loop runs a
\* first attempt when the child can be started, so that the assertion on
\* `result` cannot fail.
OneResult(i) ==
  /\ task[i].pc = "returned" =>
       /\ task[i].result # None
       /\ task[i].result.reviewer_id = i
       /\ TextsOf(task[i].result.findings) = h_log[i]
  /\ task[i].pc = "start" => Enter(task[i], 0, None, TRUE).pc = "spawn"

\* C14: the retry controller returns exactly one result, that of the last
\* attempt run, and never gets to its return without an attempt, for every
\* --retries value the command line accepts and whenever the interrupt
\* flag is set.
\* Fails: a negative --retries makes the loop body run zero times.
C14_OneResult == \A i \in Tasks : OneResult(i)

\* What C14 says of the runs whose --retries is not negative: it holds.
C14_NonNegativeRetries == retries >= 0 => \A i \in Tasks : OneResult(i)

\* --------------------------------------------------------------- C15
\* With the flag set, no task is starting a child, reading, or sleeping in
\* backoff: each is done or is reaping the child it killed.
C15_State ==
  interrupted =>
    \A i \in Tasks : task[i].pc \in Settled \cup {"cancel_wait"}

\* The step that sets the flag makes a sleeping task return the result it
\* holds.
C15_Step ==
  \A i \in Tasks :
    (~interrupted /\ interrupted' /\ task[i].pc = "sleep") =>
      /\ task'[i].pc = "returned"
      /\ task'[i].result = task[i].result

\* C15: once the interrupt flag is set no reviewer starts an attempt or a
\* backoff sleep, and a reviewer cancelled in its backoff sleep returns
\* its last attempt's result unchanged.
C15_NoRetryAfterInterrupt == []C15_State /\ [][C15_Step]_vars

\* The only reviewer was not done when the flag was set and has returned
\* a failed result with its finding: it was cancelled in its sleep.
C15_Witness ==
  /\ Tasks = {1}
  /\ interrupted /\ h_live
  /\ task[1].pc = "returned"
  /\ task[1].result.exit_code # 0
  /\ Len(task[1].result.findings) = 1

\* --------------------------------------------------------------- C16
\* The final attempt of some reviewer succeeded.
SomeSucceeded ==
  \E i \in Tasks : task[i].pc = "returned" /\ task[i].result.exit_code = 0

\* A reviewer's result has parse errors, a failed exit or a timeout.
SomeWarning ==
  \E i \in Tasks :
    /\ task[i].pc = "returned"
    /\ \/ task[i].result.parse_errors > 0
       \/ task[i].result.exit_code # 0
       \/ task[i].result.timed_out

\* The run went through aggregation and summarization and printed a
\* report; unless that is the summarizer's error report, it has the
\* warnings section when there is something to warn about.
Reported ==
  /\ AggregatorInvoked
  /\ summary # NoSummary
  /\ report # <<>>
  /\ (~report[1].error /\ SomeWarning) => report[1].warnings

\* C16: a run that was not interrupted and in which a reviewer's final
\* attempt succeeded is not aborted by parse errors or by the failure,
\* timeout or exception of other reviewers: it aggregates, summarizes and
\* prints a report in which those show as warnings.
\* Fails: a summarizer answer that is JSON but no object makes
\* render_report raise, and the run ends without a report.
C16_FailuresAbsorbed ==
  (Ended /\ ~interrupted /\ SomeSucceeded) => Reported

\* What C16 says of the runs that return a status: it holds.
C16_WhenReturned ==
  (mpc = "exited" /\ ~interrupted /\ SomeSucceeded) => Reported

\* --------------------------------------------------------------- C17
\* C17: a run that is past the gather, not interrupted and not a total
\* failure has called the aggregator, and the list it was given holds, for
\* every reviewer that returned a result (failed and timed-out ones too),
\* the findings of that result, and nothing else.
C17_AllFindingsHandedOver ==
  /\ (mpc \in {"summarize", "summ_spinner", "exited", "crashed"}
      /\ Tasks # {} /\ ~interrupted /\ ~AllReviewersFailed)
       => AggregatorInvoked
  /\ AggregatorInvoked =>
       /\ \A i \in Tasks :
            ByReviewer(all_findings, i)
              = IF task[i].pc = "returned" THEN task[i].result.findings
                ELSE <<>>
       /\ \A k \in 1..Len(all_findings) : all_findings[k].iteration \in Tasks

\* Reviewer 1 timed out with one finding, reviewer 2 succeeded with one:
\* the aggregator is given both.
C17_Witness ==
  /\ mpc = "summarize"
  /\ Tasks = {1, 2}
  /\ task[1].pc = "returned" /\ task[1].result.timed_out
  /\ task[2].pc = "returned" /\ task[2].result.exit_code = 0
  /\ all_findings = <<Finding(<<"a">>, 1), Finding(<<"a">>, 2)>>

\* --------------------------------------------------------------- C18
ToSet(s) == {s[k] : k \in 1..Len(s)}

\* The list L read in the order p, a permutation of its positions.
Permuted(L, p) == [k \in 1..Len(L) |-> L[p[k]]]

\* C18: aggregate_findings of any reordering of its input returns the same
\* entries (same texts, same reviewers), as many of them; only their order
\* in the list can differ.
C18_OrderIndependent ==
  mpc = "aggregated" =>
    \A p \in Permutations(1..Len(all_findings)) :
      LET out == aggregate_findings(Permuted(all_findings, p)) IN
        /\ ToSet(out) = ToSet(aggregated)
        /\ Len(out) = Len(aggregated)

\* "a" by 2, "A" by 1, " a" by 1: two entries; with "A" first in the input
\* the same two entries come in the other order.
C18_Witness ==
  /\ mpc = "aggregated"
  /\ all_findings = <<Finding(<<"a">>, 2), Finding(<<"A">>, 1),
                      Finding(<<" ", "a">>, 1)>>
  /\ aggregated = <<[text |-> <<"a">>, reviewers |-> <<1, 2>>],
                    [text |-> <<"A">>, reviewers |-> <<1>>]>>
  /\ aggregate_findings(Permuted(all_findings, <<2, 1, 3>>))
       = <<aggregated[2], aggregated[1]>>

\* --------------------------------------------------------------- C19
\* One Finding per reviewer of an entry, then per entry of the list.
FlattenOne(e) ==
  [j \in 1..Len(e.reviewers) |-> Finding(e.text, e.reviewers[j])]

RECURSIVE Flatten(_)
Flatten(agg) ==
  IF agg = <<>> THEN <<>> ELSE FlattenOne(Head(agg)) \o Flatten(Tail(agg))

\* C19: aggregating the flattening of aggregate_findings(L) gives the
\* entries of aggregate_findings(L) again.
C19_Idempotent ==
  mpc = "aggregated" =>
    LET again == aggregate_findings(Flatten(aggregated)) IN
      /\ ToSet(again) = ToSet(aggregated)
      /\ Len(again) = Len(aggregated)

\* "  a" by 3, "a" by 1, "A" by 2: the entries "a" by 1 and 3, "A" by 2,
\* flattened into three findings.
C19_Witness ==
  /\ mpc = "aggregated"
  /\ all_findings = <<Finding(<<" ", " ", "a">>, 3), Finding(<<"a">>, 1),
                      Finding(<<"A">>, 2)>>
  /\ aggregated = <<[text |-> <<"a">>, reviewers |-> <<1, 3>>],
                    [text |-> <<"A">>, reviewers |-> <<2>>]>>
  /\ Flatten(aggregated) = <<Finding(<<"a">>, 1), Finding(<<"a">>, 3),
                             Finding(<<"A">>, 2)>>

\* --------------------------------------------------------------- C20
\* The aggregator was called and returned the empty list.
NothingAggregated == AggregatorInvoked /\ aggregated = <<>>

\* For an empty aggregated list no engine is started, the summary is the
\* empty GroupedFindings with status 0, and the report of a run that ended
\* is the LGTM one.
EmptySummaryIsLgtm ==
  /\ h_engine = 0 /\ h_answer = <<>>
  /\ summary.grouped = EmptyGrouped /\ summary.exit_code = 0
  /\ mpc \in {"summ_spinner", "exited"}
  /\ mpc = "exited" =>
       /\ report # <<>>
       /\ ~report[1].error
       /\ report[1].body = "lgtm"

\* The LGTM flow returns Error only when the approval of the PR was to be
\* tried and `gh` is missing, the CI status cannot be read, or the
\* approval fails.
LgtmErrorIsPrError ==
  \A e \in LgtmEnvs :
    \/ LgtmFlow(e).status = EXIT_NO_FINDINGS
    \/ /\ LgtmFlow(e).status = EXIT_ERROR
       /\ ~e.local /\ ~e.no
       /\ \/ ~e.gh
          \/ e.pr /\ e.ci = "error"
          \/ confirm_and_execute_pr_action(e).error

\* C20, as the code has it: for an empty aggregated list summarize_findings
\* returns the empty GroupedFindings with status 0 and starts no engine;
\* the run prints the LGTM report and ends as NoFindings, or as Error when
\* the PR approval that follows the report fails.
C20_EmptyIsLgtm ==
  /\ LgtmErrorIsPrError
  /\ NothingAggregated =>
       /\ EmptySummaryIsLgtm
       /\ mpc = "exited" =>
            \/ exit_status = <<EXIT_NO_FINDINGS>>
            \/ exit_status = <<EXIT_ERROR>> /\ pr_action = "none"

\* C20, as stated: ... and the run ends as NoFindings.
C20_EmptyIsNoFindings ==
  NothingAggregated =>
    /\ EmptySummaryIsLgtm
    /\ mpc = "exited" => exit_status = <<EXIT_NO_FINDINGS>>

\* The only reviewer succeeded without a finding: no engine, the LGTM
\* report, status 0.
C20_Witness ==
  /\ mpc = "exited"
  /\ Tasks = {1}
  /\ NothingAggregated
  /\ h_engine = 0
  /\ summary = NoEngineSummary
  /\ report # <<>> /\ report[1].body = "lgtm"
  /\ exit_status = <<EXIT_NO_FINDINGS>>

\* --------------------------------------------------------------- C21
\* There is something to warn about: a parse error, a failed reviewer or a
\* timed-out reviewer among the results (1019-1026).
WarningsDue ==
  \/ SumParseErrors(results, Len(results)) > 0
  \/ failed_iters(results) # {}
  \/ timed_out_iters(results) # {}

\* C21: a run that ended after the summarizer failed printed a report with
\* the summarizer-error section and, when there is something to warn about,
\* the warnings section.
\* Fails: render_report returns after the error section, before the
\* warnings are written; and when the failed engine's output is JSON but
\* not an object, render_report raises and nothing is printed.
C21_FailureReport ==
  (Ended /\ SummarizerFailed) =>
    /\ report # <<>>
    /\ report[1].error
    /\ WarningsDue => report[1].warnings

\* What C21 says of the error section, for the runs that return a status:
\* it holds.
C21_ErrorSectionPrinted ==
  (mpc = "exited" /\ SummarizerFailed) =>
    /\ report # <<>>
    /\ report[1].error
    /\ exit_status = <<EXIT_ERROR>>

\* --------------------------------------------------------------- C22
\* One step seen from the flag: it is never reset; the step that sets it
\* calls cancel() once on every tracked task, which gets CancelledError
\* where it is suspended; cancel() is called by no other step; a run of
\* the handler with the flag already set changes nothing.
C22_Step ==
  /\ interrupted => interrupted'
  /\ (~interrupted /\ interrupted') =>
       /\ Tasks' = Tasks
       /\ \A i \in Tasks :
            /\ h_cancels'[i] = h_cancels[i] + 1
            /\ task'[i] = OnCancel(task[i])
  /\ (mpc # "main" /\ h_cancels' # h_cancels) => (~interrupted /\ interrupted')
  /\ (interrupted /\ Interrupt) => UNCHANGED vars

\* C22: the interrupt flag starts false, the first signal sets it and
\* cancels every tracked task, it is never reset, and a later signal leaves
\* the state as it is (no second cancel() on any task).
C22_OneShot == ~interrupted /\ [][C22_Step]_vars

\* The flag is set, both reviewers got their one cancel() while reading and
\* are reaping the children they killed.
C22_Witness ==
  /\ interrupted
  /\ Tasks = {1, 2}
  /\ \A i \in Tasks : h_cancels[i] = 1 /\ task[i].pc = "cancel_wait"

\* --------------------------------------------------------------- C23
(* The run under fair scheduling.  The event loop runs every callback that *)
(* is ready: a task's first step, the step after a child was started, a    *)
(* timer that expired (the deadline of wait_for, the backoff sleep), the   *)
(* main task once gather or the summarizer is done.  A child that got      *)
(* SIGKILL is reaped.  Nothing is assumed of what a child or the           *)
(* summarizer engine writes or of when it ends, nor of the signals.        *)
Fairness ==
  /\ WF_vars(Main)
  /\ \A i \in ReviewerCounts :
       /\ WF_vars(i \in Tasks /\ StartTask(i))
       /\ WF_vars(i \in Tasks /\ Spawned(i))
       /\ WF_vars(i \in Tasks /\ Timeout(i))
       /\ WF_vars(i \in Tasks /\ TimeoutReaped(i))
       /\ WF_vars(i \in Tasks /\ CancelReaped(i))
       /\ WF_vars(i \in Tasks /\ SleepDone(i))
  /\ WF_vars(GatherReturns)
  /\ WF_vars(AfterGather)
  /\ WF_vars(Report)

SpecFair == Init /\ [][Next]_vars /\ Fairness

\* C23: after an interrupt every reviewer task eventually settles and the
\* run eventually ends, the wait for the summarizer engine included.
\* Fails: handle_interrupt cancels the reviewer tasks only; the main task
\* awaiting proc.communicate() is not cancelled and the wait has no
\* deadline, so with an engine that never answers the run never ends.
C23_InterruptEnds ==
  interrupted ~> ((\A i \in Tasks : task[i].pc \in Settled) /\ Ended)

\* What C23 says of the reviewer tasks: it holds.
C23_TasksSettle ==
  interrupted ~> (\A i \in Tasks : task[i].pc \in Settled)

\* --------------------------------------------------------------- C24
\* The position in L of the first finding whose trimmed text is x.
FirstAt(L, x) ==
  CHOOSE k \in 1..Len(L) :
    /\ Trimmed(L[k].text) = x
    /\ \A j \in 1..(k - 1) : Trimmed(L[j].text) # x

\* C24: the entries of aggregate_findings come in the order of first
\* occurrence: one entry is before another in the output exactly when the
\* first input finding with its (trimmed) text is before the first input
\* finding with the other's.
C24_FirstOccurrenceOrder ==
  mpc = "aggregated" =>
    \A p, q \in 1..Len(aggregated) :
      p # q =>
        /\ aggregated[p].text # aggregated[q].text
        /\ (p < q) <=> (FirstAt(all_findings, aggregated[p].text)
                          < FirstAt(all_findings, aggregated[q].text))

\* "A" by 1, " a" by 2, "A" by 3: the entry "A" comes before the entry "a",
\* though "a" was seen last before "A" came again.
C24_Witness ==
  /\ mpc = "aggregated"
  /\ all_findings = <<Finding(<<"A">>, 1), Finding(<<" ", "a">>, 2),
                      Finding(<<"A">>, 3)>>
  /\ aggregated = <<[text |-> <<"A">>, reviewers |-> <<1, 3>>],
                    [text |-> <<"a">>, reviewers |-> <<2>>]>>

\* --------------------------------------------------------------- C25
\* The reviewers whose final outcome is a failure, and the parse errors of
\* the results of reviewers 1..k that returned one.
FailedReviewers == {i \in Tasks : FinalFailed(task[i])}

RECURSIVE ReturnedParseErrors(_)
ReturnedParseErrors(k) ==
  IF k = 0 THEN 0
  ELSE ReturnedParseErrors(k - 1)
       + (IF task[k].pc = "returned" THEN task[k].result.parse_errors ELSE 0)

\* A task that raised holds no result; gather stores its exception; no
\* finding of its reviewer is in the list handed to the aggregator and the
\* parse errors counted are those of the returned results alone; in a run
\* not interrupted, the aggregator is reached exactly when the reviewers
\* that failed, each task that raised counted once, are fewer than all.
C25_State ==
  /\ \A i \in Tasks :
       task[i].pc = "raised" =>
         /\ task[i].result = None
         /\ results # <<>> => results[i] = TaskException
         /\ ByReviewer(all_findings, i) = <<>>
  /\ (results # <<>> /\ \A k \in Ids : results[k] # TaskCancelled) =>
       SumParseErrors(results, reviewers) = ReturnedParseErrors(reviewers)
  /\ (results # <<>> /\ mpc # "spinner" /\ ~interrupted) =>
       (AggregatorInvoked <=> Cardinality(FailedReviewers) < reviewers)

\* No step changes a task that raised: no further attempt is started.
C25_Step ==
  \A i \in Tasks : task[i].pc = "raised" => task'[i] = task[i]

\* C25: an exception raised while a reviewer's child is started or its
\* output is read is not retried, adds no findings and no parse errors to
\* the run, and counts as one failure toward the total-failure threshold.
C25_ExceptionCountsOnce == []C25_State /\ [][C25_Step]_vars

\* Reviewer 1 raised, reviewer 2 succeeded with a finding: one failure of
\* two, the aggregator gets the finding of reviewer 2 alone.
C25_Witness ==
  /\ mpc = "summarize" /\ ~interrupted
  /\ Tasks = {1, 2}
  /\ task[1].pc = "raised"
  /\ task[2].pc = "returned" /\ task[2].result.exit_code = 0
  /\ results[1] = TaskException
  /\ all_findings = <<Finding(<<"a">>, 2)>>

\* --------------------------------------------------------------- C26
\* The reviewer tasks that returned a result.
ReturnedTasks == {i \in Tasks : task[i].pc = "returned"}

\* C26: the completion counter is the number of reviewer tasks that
\* returned a result, never more than the number of reviewers, and once
\* every task has finished in a run that is not interrupted it equals the
\* number of reviewers.
\* Fails: a task that ends by an exception finishes without the increment
\* of line 1195, so the counter stays below the number of reviewers.
C26_CompletionCounter ==
  /\ completed = Cardinality(ReturnedTasks)
  /\ completed <= reviewers
  /\ (Tasks # {} /\ ~interrupted /\ \A i \in Tasks : task[i].pc \in Settled)
       => completed = reviewers

\* What C26 says of the increments: the counter is the number of tasks
\* that returned (none lost, none counted twice), it never decreases and it
\* equals the number of reviewers when all of them returned.
C26_CountsReturned ==
  /\ [](/\ completed = Cardinality(ReturnedTasks)
        /\ completed <= reviewers
        /\ (Tasks # {} /\ ReturnedTasks = Tasks) => completed = reviewers)
  /\ [][completed' >= completed]_vars

\* --------------------------------------------------------------- C27
\* Every finding of the list fs carries the origin id i.
AllFrom(fs, i) == \A k \in 1..Len(fs) : fs[k].iteration = i

\* C27: in every state, the findings an attempt of reviewer i collects and
\* the findings of reviewer i's result carry the id i; the tasks, once
\* created, and the results gather returns are those of the reviewers
\* 1..reviewers, each result under its own id; and the reviewers of every
\* aggregated finding are ids of 1..reviewers, none of them twice.
C27_Ids ==
  /\ Tasks # {} => Tasks = 1..reviewers
  /\ \A i \in Tasks :
       /\ AllFrom(task[i].findings, i)
       /\ task[i].result # None =>
            /\ task[i].result.reviewer_id = i
            /\ AllFrom(task[i].result.findings, i)
  /\ results # <<>> =>
       /\ DOMAIN results = 1..reviewers
       /\ \A i \in ResultIds(results) :
            results[i] # TaskCancelled =>
              /\ results[i].reviewer_id = i
              /\ AllFrom(results[i].findings, i)
  /\ \A k \in 1..Len(all_findings) : all_findings[k].iteration \in 1..reviewers
  /\ \A k \in 1..Len(aggregated) :
       LET rs == aggregated[k].reviewers IN
         /\ \A j \in 1..Len(rs) : rs[j] \in 1..reviewers
         /\ \A j, n \in 1..Len(rs) : rs[j] = rs[n] => j = n

\* Reviewer 1 reported the same text twice and reviewer 2 once: three
\* findings, one aggregated finding whose reviewers are 1 and 2, each once.
C27_Witness ==
  /\ mpc = "summarize"
  /\ Tasks = {1, 2}
  /\ all_findings = <<Finding(<<"a">>, 1), Finding(<<"a">>, 1),
                      Finding(<<"a">>, 2)>>
  /\ aggregated = <<[text |-> <<"a">>, reviewers |-> <<1, 2>>]>>

\* --------------------------------------------------------------- C28
\* Once gather has returned, so before the aggregator or the summarizer
\* starts, every reviewer task is done; the list handed to the aggregator
\* is made of the results those tasks ended with; at most one summarizer
\* engine is started.
C28_State ==
  /\ (results # <<>> \/ AggregatorInvoked \/ h_engine > 0) =>
       /\ mpc \notin {"main", "gather"}
       /\ \A i \in Tasks : task[i].pc \in Settled
       /\ results = [i \in Ids |-> Gathered(task[i])]
  /\ AggregatorInvoked =>
       /\ all_findings = Extend(results, reviewers)
       /\ aggregated = aggregate_findings(all_findings)
  /\ h_engine <= 1
  /\ h_engine = 1 => (AggregatorInvoked /\ aggregated # <<>>)

\* From the return of gather on, no step changes a task, the results, or,
\* once it is built, the list the aggregator was given and what it
\* returned.
C28_Step ==
  /\ results # <<>> => (task' = task /\ results' = results)
  /\ AggregatorInvoked =>
       (all_findings' = all_findings /\ aggregated' = aggregated)

\* C28: the aggregator and the summarizer start only after every reviewer
\* task has returned, raised or been cancelled; the summarizer engine is
\* started at most once; no findings list changes after aggregation began.
C28_AfterAllSettled == []C28_State /\ [][C28_Step]_vars

\* Reviewer 1 failed with a finding, reviewer 2 succeeded: both are done,
\* the one engine of the run is answering.
C28_Witness ==
  /\ mpc = "summarize"
  /\ h_engine = 1
  /\ Tasks = {1, 2}
  /\ task[1].pc = "returned" /\ task[1].result.exit_code = 1
  /\ Len(task[1].result.findings) = 1
  /\ task[2].pc = "returned" /\ task[2].result.exit_code = 0
  /\ aggregated # <<>>

\* --------------------------------------------------------------- C29
\* C29: for an aggregated list that is not empty, the array written to the
\* summarizer engine has one entry per aggregated finding, in the order of
\* the list; the entry at zero-based position n has id n (the ids are
\* 0..Len - 1), the text of the finding and its reviewers.
C29_Payload ==
  (mpc = "aggregated" /\ aggregated # <<>>) =>
    /\ Len(payload) = Len(aggregated)
    /\ {payload[k].id : k \in 1..Len(payload)} = 0..(Len(aggregated) - 1)
    /\ \A k \in 1..Len(payload) :
         /\ payload[k].id = k - 1
         /\ payload[k].text = aggregated[k].text
         /\ payload[k].reviewers = aggregated[k].reviewers

\* Of three reviewers, 1 and 2 report the same text and 3 nothing: the
\* array has one element, id 0, reviewers 1 and 2.
C29_Witness ==
  /\ mpc = "aggregated"
  /\ reviewers = 3
  /\ all_findings = <<Finding(<<"a">>, 1), Finding(<<"a">>, 2)>>
  /\ payload = <<[id |-> 0, text |-> <<"a">>, reviewers |-> <<1, 2>>]>>

\* --------------------------------------------------------------- C30
RECURSIVE Pow2(_)
Pow2(k) == IF k = 0 THEN 1 ELSE 2 * Pow2(k - 1)

\* A task sleeps only after an attempt, of index k below the number of
\* retries, that failed or timed out, and then for 2^k seconds; no sleep
\* is pending for a task that is not in its backoff sleep.
C30_State ==
  \A i \in Tasks :
    /\ task[i].pc = "sleep" =>
         /\ task[i].attempt < retries
         /\ task[i].result.exit_code # 0
         /\ delay[i] = <<Pow2(task[i].attempt)>>
    /\ task[i].pc # "sleep" => delay[i] = <<>>

\* The step that ends attempt k without a cancellation goes to the backoff
\* sleep exactly when the attempt failed or timed out and k is below the
\* number of retries; attempt k + 1 starts only out of the sleep of 2^k
\* seconds.
C30_Step ==
  \A i \in Tasks :
    /\ (task[i].pc \in {"wait_exit", "timeout_wait"}
        /\ task'[i].pc \in {"sleep", "returned"}) =>
         (task'[i].pc = "sleep"
            <=> (task'[i].result.exit_code # 0 /\ task[i].attempt < retries))
    /\ (task'[i].pc = "spawn" /\ task[i].pc # "spawn"
        /\ task'[i].attempt > 0) =>
         /\ task[i].pc = "sleep"
         /\ delay[i] = <<Pow2(task'[i].attempt - 1)>>

\* C30: before the retry that follows the failed or timed-out attempt of
\* zero-based index k < retries the retry loop sleeps 2^k seconds, and it
\* does not sleep after a successful attempt or after attempt k = retries.
C30_Backoff == []C30_State /\ [][C30_Step]_vars

\* The third attempt (index 2) of the reviewer timed out: it sleeps four
\* seconds before the fourth.
C30_Witness ==
  /\ Tasks = {1}
  /\ retries = 3
  /\ task[1].pc = "sleep"
  /\ task[1].attempt = 2
  /\ task[1].result.timed_out
  /\ delay[1] = <<4>>

\* --------------------------------------------------------------- C31
\* The reviewers whose final attempt returned exit status 0.
SucceededReviewers ==
  {i \in Tasks : task[i].pc = "returned" /\ task[i].result.exit_code = 0}

\* C31: the count of successful reviewers the LGTM body states is the
\* number of reviewers whose final attempt returned exit status 0, and it
\* is between 1 and the number of reviewers.
\* Fails: the count is reviewers minus failed minus timed out; a reviewer
\* whose task raised is in neither list and is counted as successful.
C31_SuccessfulCount ==
  lgtm_body # <<>> =>
    /\ lgtm_body[1].total = reviewers
    /\ lgtm_body[1].successful = Cardinality(SucceededReviewers)
    /\ lgtm_body[1].successful \in 1..reviewers

\* What C31 says of the runs in which no reviewer task raised, and of the
\* range of the count in every run: it holds.
C31_WithoutExceptions ==
  lgtm_body # <<>> =>
    /\ lgtm_body[1].total = reviewers
    /\ lgtm_body[1].successful \in 1..reviewers
    /\ (\A i \in Tasks : task[i].pc # "raised") =>
         lgtm_body[1].successful = Cardinality(SucceededReviewers)

\* --------------------------------------------------------------- C32
\* Whatever the environment answers, the LGTM flow approves only outside
\* local mode and auto-no and when the CI status read was "passed", and the
\* findings flow posts only outside local mode and auto-no; neither flow
\* executes the other's action.
FlowsGuarded ==
  /\ \A e \in LgtmEnvs :
       /\ LgtmFlow(e).action \in {"none", "approve"}
       /\ LgtmFlow(e).action = "approve" =>
            (~e.local /\ ~e.no /\ e.gh /\ e.pr /\ e.ci = "passed")
  /\ \A e \in FindingsEnvs :
       /\ FindingsFlow(e).action \in {"none", "comment"}
       /\ FindingsFlow(e).action = "comment" =>
            (~e.local /\ ~e.no /\ e.gh /\ e.pr)

\* C32: the approval is executed only in a run that was not interrupted,
\* was not a total failure and whose summarizer succeeded with zero finding
\* groups, after a CI status of all checks passed; the comment is posted
\* only when the summarizer succeeded with at least one finding group; in
\* local mode and with auto-no neither is executed.
\* Fails: the flag set after the results were gathered is never read
\* again (C1), so an interrupted run goes on to approve; and an answer
\* whose "findings" is truthy but not a list is reported as zero groups
\* and then posted as a comment (C5).
C32_ActionsGuarded ==
  /\ FlowsGuarded
  /\ pr_action = "approve" =>
       /\ ~interrupted
       /\ ~AllReviewersFailed
       /\ SummarizerSucceeded /\ GroupsOf(summary) = 0
  /\ pr_action = "comment" =>
       SummarizerSucceeded /\ GroupsOf(summary) >= 1

\* What C32 says apart from the interrupt that arrives after the results
\* were gathered and from the answers whose "findings" is not a list: it
\* holds.
C32_ExceptInterruptAndShape ==
  /\ FlowsGuarded
  /\ pr_action = "approve" =>
       /\ ~AllReviewersFailed
       /\ SummarizerSucceeded /\ GroupsOf(summary) = 0
       /\ results # <<>> /\ \A i \in Ids : results[i] # TaskCancelled
  /\ pr_action = "comment" =>
       /\ SummarizerSucceeded
       /\ GroupsOf(summary) >= 1 \/ summary.grouped.findings.ty = "other"

====
